---- MODULE Spec2Model ----
(***************************************************************************)
(* A model of src/verifier.py (class Verifier): the host/container path    *)
(* translation, the generation of config.yaml / env.yaml, and the          *)
(* verification-and-execution of a docker image by Verifier.run.           *)
(*                                                                         *)
(* Conventions                                                             *)
(*   - an absolute path is the sequence of its components: "/out/a/b" is   *)
(*     <<"out","a","b">> and "/" is <<>>; a relative path is the sequence  *)
(*     of its components too ("../.." is <<"..","..">>, "." is <<".">>);   *)
(*   - a python dict is a function whose domain is its set of keys;        *)
(*   - a python str built by an f-string is the sequence of its pieces,    *)
(*     the empty string '' is <<>>, and a str is truthy iff it is not <<>>;*)
(*   - the docker daemon and the container are the environment: every call *)
(*     of the docker SDK draws its outcome nondeterministically;           *)
(*   - the file-system layer is taken to work: the input directory exists  *)
(*     and can be written, and the environment template file holds a       *)
(*     mapping. What generate_yaml decides itself (osp.exists on the index *)
(*     files, the task name) is modelled.                                  *)
(***************************************************************************)
EXTENDS Integers, Sequences, FiniteSets

VARIABLES
    \* ---- get_host_path / verify_docker_path
    ymir_out_dir,      \* self.ymir_out_dir (absolute, normalised)
    docker_file_path,  \* the argument of the path call
    is_file,           \* the is_file argument of verify_docker_path
    path_pc,           \* "start" | "get_host_path" | "verify_docker_path"
    host_file_path,    \* what get_host_path returned
    path_found,        \* what osp.isfile / osp.isdir returned
    \* ---- generate_yaml
    in_dir,            \* the files of self.ymir_in_dir: name -> content
    user_train_config, \* self.user_train_config
    gpu_id,            \* cfg.get('gpu_id', '0'), split at the commas
    env_template,      \* the document of self.ymir_env_file
    gen,               \* the last generate_yaml call and how it ended
    \* ---- run
    pc,                \* where the run call stands
    args,              \* docker_image_name, tag, detach of the run call
    verify_result,     \* the dict run builds and returns
    target_image,      \* attrs['Config'] of the image fetched at line 56
    exc,               \* the exception in flight or raised ("none": none)
    outcome,           \* "none" | "returned" | "raised"
    exit_status,       \* the status the container exited with (0 until one did)
    assigned,          \* ghost: the keys of verify_result in assignment order
    api_log            \* ghost: the docker SDK calls of this run call and how each ended

pathVars == <<ymir_out_dir, docker_file_path, is_file, path_pc, host_file_path, path_found>>
yamlVars == <<in_dir, user_train_config, gpu_id, env_template, gen>>
runVars == <<pc, args, verify_result, target_image, exc, outcome, exit_status,
             assigned, api_log>>
vars == <<pathVars, yamlVars, runVars>>

\* ------------------------------------------------------------------------
\* python helpers

\* d.update(e) on a copy of d
Update(d, e) ==
    [k \in DOMAIN d \cup DOMAIN e |-> IF k \in DOMAIN e THEN e[k] ELSE d[k]]

\* d[k] = v on a copy of d
Put(d, k, v) ==
    [x \in DOMAIN d \cup {k} |-> IF x = k THEN v ELSE d[x]]

\* dict()
EmptyDict == [k \in {} |-> <<>>]

Last(s) == s[Len(s)]

Front(s) == SubSeq(s, 1, Len(s) - 1)

\* [x] * n
RECURSIVE Repeat(_, _)
Repeat(x, n) == IF n = 0 THEN <<>> ELSE <<x>> \o Repeat(x, n - 1)

\* the sequences over S of length at most n
RECURSIVE SeqsUpTo(_, _)
SeqsUpTo(S, n) ==
    IF n = 0 THEN {<<>>}
    ELSE LET shorter == SeqsUpTo(S, n - 1)
         IN  shorter \cup {Append(s, x) : s \in shorter, x \in S}

\* ------------------------------------------------------------------------
\* get_host_path, verify_docker_path (lines 31-46)

\* the deepest container path tried
MaxDepth == 3

PathComponents == {"out", "in", "models", "best.pt", ".", ".."}

\* the values of cfg['out_dir'] tried, after os.path.abspath (line 18)
OutDirs == {<<"host", "out">>, <<"out">>}

\* posixpath.normpath of an absolute path: '.' is dropped, '..' drops the
\* component before it and is itself dropped at the root
RECURSIVE normpath(_)
normpath(p) ==
    IF p = <<>> THEN <<>>
    ELSE LET head == normpath(Front(p))
             c == Last(p)
         IN  IF c = "." THEN head
             ELSE IF c = ".." THEN (IF head = <<>> THEN <<>> ELSE Front(head))
             ELSE Append(head, c)

\* os.path.commonprefix of two component lists: the length of the longest
\* common prefix
RECURSIVE commonprefix(_, _)
commonprefix(a, b) ==
    IF a = <<>> \/ b = <<>> \/ a[1] # b[1] THEN 0
    ELSE 1 + commonprefix(Tail(a), Tail(b))

\* posixpath.relpath(path, start), both absolute: climb out of start with
\* '..', then descend into path; '.' when nothing is left
relpath(path, start) ==
    LET start_list == normpath(start)
        path_list == normpath(path)
        i == commonprefix(start_list, path_list)
        rel_list == Repeat("..", Len(start_list) - i)
                        \o SubSeq(path_list, i + 1, Len(path_list))
    IN  IF rel_list = <<>> THEN <<".">> ELSE rel_list

\* posixpath.join(a, b) for a relative b: a, a separator, b (not normalised)
osp_join(a, b) == a \o b

\* line 35
docker_out_dir == <<"out">>

\* lines 31-38
get_host_path(out_dir, docker_path) ==
    osp_join(out_dir, relpath(docker_out_dir, docker_path))

\* the host file system: its files and its directories
HostFiles == {<<"host", "out", "models", "best.pt">>}

HostDirs == {<<>>, <<"host">>, <<"host", "out">>, <<"host", "out", "models">>, <<"out">>}

\* osp.isfile, osp.isdir: the kernel resolves '.' and '..'
osp_isfile(p) == normpath(p) \in HostFiles

osp_isdir(p) == normpath(p) \in HostDirs

\* lines 40-46
verify_docker_path(out_dir, docker_path, file) ==
    LET host_path == get_host_path(out_dir, docker_path)
    IN  [found |-> IF file THEN osp_isfile(host_path) ELSE osp_isdir(host_path),
         host_path |-> host_path]

PathInit ==
    /\ ymir_out_dir \in OutDirs
    /\ docker_file_path \in SeqsUpTo(PathComponents, MaxDepth)
    /\ is_file \in BOOLEAN
    /\ path_pc = "start"
    /\ host_file_path = <<>>
    /\ path_found = FALSE

PathIdle ==
    /\ ymir_out_dir = <<"out">>
    /\ docker_file_path = <<>>
    /\ is_file = TRUE
    /\ path_pc = "unused"
    /\ host_file_path = <<>>
    /\ path_found = FALSE

GetHostPath ==
    /\ path_pc = "start"
    /\ host_file_path' = get_host_path(ymir_out_dir, docker_file_path)
    /\ path_pc' = "get_host_path"
    /\ UNCHANGED <<ymir_out_dir, docker_file_path, is_file, path_found, yamlVars, runVars>>

VerifyDockerPath ==
    /\ path_pc = "start"
    /\ LET r == verify_docker_path(ymir_out_dir, docker_file_path, is_file)
       IN  /\ host_file_path' = r.host_path
           /\ path_found' = r.found
    /\ path_pc' = "verify_docker_path"
    /\ UNCHANGED <<ymir_out_dir, docker_file_path, is_file, yamlVars, runVars>>

\* ------------------------------------------------------------------------
\* generate_yaml (lines 121-217)

\* line 13
supported_tasks == {"training", "mining", "infer"}

\* the task names tried: the supported ones and one that is not
Tasks == supported_tasks \cup {"detection"}

\* os.path.abspath(cfg.get('in_dir', '/in')) (line 17)
ymir_in_dir == <<"host", "in">>

\* the template_config arguments tried
Templates == {EmptyDict, [a |-> 1, b |-> 2]}

\* the contents of user_train_config_file tried (lines 20-26); the first is
\* the absent file
UserTrainConfigs ==
    {EmptyDict, [b |-> 99, c |-> 3], [run_mining |-> TRUE], [run_training |-> FALSE]}

\* the values of cfg['gpu_id'] tried: '0' and '0,1'
GpuIds == {<<"0">>, <<"0", "1">>}

\* the documents of the environment template file tried
EnvTemplates ==
    {[protocol_version |-> "1.0.0"],
     [protocol_version |-> "1.0.0", run_training |-> FALSE, run_mining |-> FALSE,
      run_infer |-> TRUE]}

IndexFiles == {"train-index.tsv", "val-index.tsv", "candidate-index.tsv"}

\* line 130
task_id == "t00000020000020167c11661328921"

\* osp.exists of a path of the input directory
osp_exists(fs, path) == Last(path) \in DOMAIN fs

\* with open(path, 'w') as fp: yaml.dump(doc, fp)
yaml_dump(fs, path, doc) == Put(fs, Last(path), doc)

\* lines 128-160: the document written to config.yaml
in_config(template_config, task) ==
    LET gpu_count == Len(gpu_id)
        base == [gpu_id |-> gpu_id, gpu_count |-> gpu_count, task_id |-> task_id,
                 class_names |-> <<"dog">>]
    IN  IF task = "training"
        THEN Update(Update(template_config,
                           Update(base, [pretrained_model_params |-> <<>>])),
                    user_train_config)
        ELSE Update(template_config, Update(base, [model_params_path |-> <<>>]))

\* required_index_files without the check of val-index.tsv
required_index_files_no_val(task) ==
    IF task = "training" THEN <<"train-index.tsv">>
    ELSE <<"candidate-index.tsv">>

\* lines 172-177, 192-194, 204-206: the index files a task checks, in order
required_index_files(task) ==
    IF task = "training" THEN <<"train-index.tsv", "val-index.tsv">>
    ELSE <<"candidate-index.tsv">>

\* the first index file of the task that osp.exists misses (<<>>: none)
RECURSIVE first_missing(_, _)
first_missing(fs, names) ==
    IF names = <<>> THEN <<>>
    ELSE IF ~osp_exists(fs, Append(ymir_in_dir, Head(names)))
         THEN Append(ymir_in_dir, Head(names))
         ELSE first_missing(fs, Tail(names))

\* lines 179-189, 196-202, 207-213: the task's part of env.yaml
env_task_config(task) ==
    LET flags == [run_training |-> task = "training",
                  run_mining |-> task = "mining",
                  run_infer |-> task = "infer",
                  task_id |-> task_id,
                  input |-> IF task = "training"
                            THEN [training_index_file |-> "/in/train-index.tsv",
                                  val_index_file |-> "/in/val-index.tsv",
                                  candidate_index_file |-> ""]
                            ELSE [training_index_file |-> "",
                                  val_index_file |-> "",
                                  candidate_index_file |-> "/in/candidate-index.tsv"]]
    IN  IF task = "training" /\ user_train_config # EmptyDict
        THEN Update(flags, user_train_config)
        ELSE flags

\* generate_yaml with the index files checked before config.yaml is written
generate_yaml_checks_first(fs, template_config, task) ==
    LET in_config_file == Append(ymir_in_dir, "config.yaml")
        env_config_file == Append(ymir_in_dir, "env.yaml")
        warn1 == IF osp_exists(fs, in_config_file) THEN {"config.yaml"} ELSE {}
        missing == first_missing(fs, required_index_files(task))
        fs1 == yaml_dump(fs, in_config_file, in_config(template_config, task))
        warn2 == IF osp_exists(fs1, env_config_file) THEN {"env.yaml"} ELSE {}
        env_config == Update(env_template, env_task_config(task))
    IN  IF task \notin supported_tasks
        THEN [fs |-> fs, status |-> "raised", exc |-> <<"unknown task name", task>>,
              wrote |-> {}, warned |-> warn1]
        ELSE IF missing # <<>>
        THEN [fs |-> fs, status |-> "raised", exc |-> missing \o <<"not exist">>,
              wrote |-> {}, warned |-> warn1]
        ELSE [fs |-> yaml_dump(fs1, env_config_file, env_config), status |-> "ok",
              exc |-> <<>>, wrote |-> {"config.yaml", "env.yaml"},
              warned |-> warn1 \cup warn2]

\* lines 121-217: the files after the call, how it ended, the files it
\* opened for writing and the files it warned about
generate_yaml(fs, template_config, task) ==
    LET in_config_file == Append(ymir_in_dir, "config.yaml")
        env_config_file == Append(ymir_in_dir, "env.yaml")
        warn1 == IF osp_exists(fs, in_config_file) THEN {"config.yaml"} ELSE {}
        fs1 == yaml_dump(fs, in_config_file, in_config(template_config, task))
        warn2 == IF osp_exists(fs1, env_config_file) THEN {"env.yaml"} ELSE {}
        missing == first_missing(fs1, required_index_files(task))
        env_config == Update(env_template, env_task_config(task))
    IN  IF task \notin supported_tasks
        THEN [fs |-> fs, status |-> "raised", exc |-> <<"unknown task name", task>>,
              wrote |-> {}, warned |-> warn1]
        ELSE IF missing # <<>>
        THEN [fs |-> fs1, status |-> "raised", exc |-> missing \o <<"not exist">>,
              wrote |-> {"config.yaml"}, warned |-> warn1 \cup warn2]
        ELSE [fs |-> yaml_dump(fs1, env_config_file, env_config), status |-> "ok",
              exc |-> <<>>, wrote |-> {"config.yaml", "env.yaml"},
              warned |-> warn1 \cup warn2]

NoCall ==
    [task |-> "none", template_config |-> EmptyDict, status |-> "none", exc |-> <<>>,
     wrote |-> {}, warned |-> {}]

YamlInit ==
    /\ \E present \in SUBSET IndexFiles : in_dir = [f \in present |-> "tsv"]
    /\ user_train_config \in UserTrainConfigs
    /\ gpu_id \in GpuIds
    /\ env_template \in EnvTemplates
    /\ gen = NoCall

YamlIdle ==
    /\ in_dir = EmptyDict
    /\ user_train_config = EmptyDict
    /\ gpu_id = <<"0">>
    /\ env_template = [protocol_version |-> "1.0.0"]
    /\ gen = NoCall

GenerateYaml ==
    \E template_config \in Templates, task \in Tasks :
        LET r == generate_yaml(in_dir, template_config, task)
        IN  /\ in_dir' = r.fs
            /\ gen' = [task |-> task, template_config |-> template_config,
                       status |-> r.status, exc |-> r.exc, wrote |-> r.wrote,
                       warned |-> r.warned]
            /\ UNCHANGED <<user_train_config, gpu_id, env_template, pathVars, runVars>>

\* ------------------------------------------------------------------------
\* run, verify_exist (lines 48-119)

ImageNames == {"ymir-executor:tmi", "ymir-executor:gone"}

\* the tag arguments tried: the default and the keys run itself uses
Tags == {"run", "image_exist", "workspace", "cmd"}

\* Config.WorkingDir of the images tried
WorkingDirs == {"/app", "/workspace"}

\* Config.Cmd of the images tried: null (an image with an ENTRYPOINT only),
\* the empty list, the expected command, another command
Cmds ==
    {[null |-> TRUE, list |-> <<>>],
     [null |-> FALSE, list |-> <<>>],
     [null |-> FALSE, list |-> <<"bash /usr/bin/start.sh">>],
     [null |-> FALSE, list |-> <<"python3", "start.py">>]}

\* the status a container exits with
ExitStatuses == {0, 1}

NoImage == [WorkingDir |-> "", Cmd |-> [null |-> TRUE, list |-> <<>>]]

\* docker.errors: ImageNotFound is a NotFound, which is an APIError;
\* ContainerError is a DockerException only
isinstance(e, cls) ==
    \/ e = cls
    \/ cls = "NotFound" /\ e = "ImageNotFound"
    \/ cls = "APIError" /\ e \in {"NotFound", "ImageNotFound"}

\* verify_exist with the APIError clause reporting no error
verify_exist_api_error_dropped(docker_image_name, lookup) ==
    IF isinstance(lookup, "ImageNotFound")
    THEN [image_exist |->
              [error |-> <<"docker image", docker_image_name, "not found", lookup>>]]
    ELSE [image_exist |-> [error |-> <<>>]]

\* lines 112-119; lookup is how self.client.images.get ended
verify_exist(docker_image_name, lookup) ==
    IF lookup = "ok"
    THEN [image_exist |-> [error |-> <<>>]]
    ELSE IF isinstance(lookup, "ImageNotFound")
    THEN [image_exist |->
              [error |-> <<"docker image", docker_image_name, "not found", lookup>>]]
    ELSE [image_exist |-> [error |-> <<"unknown api error", lookup>>]]

\* lines 100-105: the first except clause that matches e, in source order
except_clause(e) ==
    IF isinstance(e, "ContainerError")
    THEN [caught |-> TRUE, error |-> <<"container error", e>>]
    ELSE IF isinstance(e, "APIError")
    THEN [caught |-> TRUE, error |-> <<"API error", e>>]
    ELSE IF isinstance(e, "ImageNotFound")
    THEN [caught |-> TRUE, error |-> <<"docker image not found", e>>]
    ELSE [caught |-> FALSE, error |-> <<>>]

\* verify_result[key] = value
Assign(key, value) ==
    /\ verify_result' = Put(verify_result, key, value)
    /\ assigned' = Append(assigned, key)

\* a call of the docker SDK and how it ended
Api(call, result) == api_log' = Append(api_log, [call |-> call, result |-> result])

\* the exception leaves run
Raise(e) ==
    /\ exc' = e
    /\ outcome' = "raised"
    /\ pc' = "done"

RunIdle ==
    /\ pc = "idle"
    /\ args = [docker_image_name |-> "", tag |-> "run", detach |-> FALSE]
    /\ verify_result = EmptyDict
    /\ target_image = NoImage
    /\ exc = "none"
    /\ outcome = "none"
    /\ exit_status = 0
    /\ assigned = <<>>
    /\ api_log = <<>>

\* line 48: the caller calls run
Call ==
    /\ pc \in {"idle", "done"}
    /\ \E name \in ImageNames, tag \in Tags, detach \in BOOLEAN :
           args' = [docker_image_name |-> name, tag |-> tag, detach |-> detach]
    /\ verify_result' = EmptyDict
    /\ target_image' = NoImage
    /\ exc' = "none"
    /\ outcome' = "none"
    /\ exit_status' = 0
    /\ assigned' = <<>>
    /\ api_log' = <<>>
    /\ pc' = "L52"
    /\ UNCHANGED <<pathVars, yamlVars>>

\* line 52
Line52 ==
    /\ pc = "L52"
    /\ \E lookup \in {"ok", "ImageNotFound", "APIError"} :
           /\ verify_result' = verify_exist(args.docker_image_name, lookup)
           /\ Api("images.get", lookup)
    /\ assigned' = <<"image_exist">>
    /\ pc' = "L53"
    /\ UNCHANGED <<args, target_image, exc, outcome, exit_status, pathVars, yamlVars>>

\* lines 53-54
Line53 ==
    /\ pc = "L53"
    /\ IF verify_result["image_exist"]["error"] # <<>>
       THEN /\ outcome' = "returned"
            /\ pc' = "done"
       ELSE /\ outcome' = outcome
            /\ pc' = "L56"
    /\ UNCHANGED <<args, verify_result, target_image, exc, exit_status, assigned,
                   api_log, pathVars, yamlVars>>

\* line 56: outside the try statement
Line56 ==
    /\ pc = "L56"
    /\ \E lookup \in {"ok", "ImageNotFound", "APIError"} :
           /\ Api("images.get", lookup)
           /\ IF lookup = "ok"
              THEN /\ \E wd \in WorkingDirs, cmd \in Cmds :
                          target_image' = [WorkingDir |-> wd, Cmd |-> cmd]
                   /\ pc' = "L58"
                   /\ UNCHANGED <<exc, outcome>>
              ELSE /\ Raise(lookup)
                   /\ UNCHANGED target_image
    /\ UNCHANGED <<args, verify_result, exit_status, assigned, pathVars, yamlVars>>

\* lines 58-60
Line58 ==
    /\ pc = "L58"
    /\ LET workspace == target_image.WorkingDir
       IN  IF workspace # "/app"
           THEN Assign("workspace",
                       [warn |-> <<"docker image workspace is not /app, but", workspace>>])
           ELSE UNCHANGED <<verify_result, assigned>>
    /\ pc' = "L62"
    /\ UNCHANGED <<args, target_image, exc, outcome, exit_status, api_log,
                   pathVars, yamlVars>>

\* lines 62-64: cmd[-1] of None is a TypeError, of [] an IndexError
Line62 ==
    /\ pc = "L62"
    /\ LET cmd == target_image.Cmd
       IN  IF cmd.null
           THEN Raise("TypeError") /\ UNCHANGED <<verify_result, assigned>>
           ELSE IF cmd.list = <<>>
           THEN Raise("IndexError") /\ UNCHANGED <<verify_result, assigned>>
           ELSE /\ IF Last(cmd.list) # "bash /usr/bin/start.sh"
                   THEN Assign("cmd",
                               [warn |-> <<"docker image cmd is not bash /usr/bin/start.sh but">>
                                             \o cmd.list])
                   ELSE UNCHANGED <<verify_result, assigned>>
                /\ pc' = "L68"
                /\ UNCHANGED <<exc, outcome>>
    /\ UNCHANGED <<args, target_image, exit_status, api_log, pathVars, yamlVars>>

\* lines 68-77: containers.run(detach=True) returns once the container started
Line69 ==
    /\ pc = "L68"
    /\ args.detach
    /\ \E started \in {"ok", "ImageNotFound", "APIError"} :
           /\ Api("containers.run", started)
           /\ IF started = "ok"
              THEN pc' = "L82" /\ UNCHANGED exc
              ELSE pc' = "except" /\ exc' = started
    /\ UNCHANGED <<args, verify_result, target_image, outcome, exit_status, assigned,
                   pathVars, yamlVars>>

\* lines 82-84: follow the logs; a line may not be utf-8
Line82 ==
    /\ pc = "L82"
    /\ \E streamed \in {"ok", "APIError", "UnicodeDecodeError"} :
           /\ Api("container.logs", IF streamed = "APIError" THEN streamed ELSE "ok")
           /\ IF streamed = "ok"
              THEN pc' = "L85" /\ UNCHANGED exc
              ELSE pc' = "except" /\ exc' = streamed
    /\ UNCHANGED <<args, verify_result, target_image, outcome, exit_status, assigned,
                   pathVars, yamlVars>>

\* line 85
Line85 ==
    /\ pc = "L85"
    /\ Assign(args.tag, [error |-> <<>>, result |-> <<>>])
    /\ pc' = "L86"
    /\ UNCHANGED <<args, target_image, exc, outcome, exit_status, api_log,
                   pathVars, yamlVars>>

\* line 86: container.wait() returns the exit status, which is dropped
Line86 ==
    /\ pc = "L86"
    /\ \E waited \in {"ok", "APIError"} :
           /\ Api("container.wait", waited)
           /\ IF waited = "ok"
              THEN /\ exit_status' \in ExitStatuses
                   /\ pc' = "finally"
                   /\ UNCHANGED exc
              ELSE /\ pc' = "except"
                   /\ exc' = waited
                   /\ UNCHANGED exit_status
    /\ UNCHANGED <<args, verify_result, target_image, outcome, assigned,
                   pathVars, yamlVars>>

\* lines 88-99: containers.run(detach=False) waits for the container, raises
\* ContainerError when it exits non-zero and returns its output otherwise
Line88 ==
    /\ pc = "L68"
    /\ ~args.detach
    /\ \E ran \in {"ok", "ContainerError", "ImageNotFound", "APIError"} :
           /\ Api("containers.run", ran)
           /\ IF ran = "ok"
              THEN /\ exit_status' = 0
                   /\ \E utf8 \in BOOLEAN :
                          IF utf8
                          THEN /\ Assign(args.tag, [error |-> <<>>, result |-> <<"output">>])
                               /\ pc' = "finally"
                               /\ UNCHANGED exc
                          ELSE /\ exc' = "UnicodeDecodeError"
                               /\ pc' = "except"
                               /\ UNCHANGED <<verify_result, assigned>>
              ELSE /\ exit_status' = IF ran = "ContainerError" THEN 1 ELSE exit_status
                   /\ exc' = ran
                   /\ pc' = "except"
                   /\ UNCHANGED <<verify_result, assigned>>
    /\ UNCHANGED <<args, target_image, outcome, pathVars, yamlVars>>

\* lines 100-105
Except ==
    /\ pc = "except"
    /\ LET clause == except_clause(exc)
       IN  IF clause.caught
           THEN Assign(args.tag, [error |-> clause.error]) /\ exc' = "none"
           ELSE UNCHANGED <<verify_result, assigned, exc>>
    /\ pc' = "finally"
    /\ UNCHANGED <<args, target_image, outcome, exit_status, api_log, pathVars, yamlVars>>

\* lines 106-108: verify_result[tag]['error'] is a KeyError when either key
\* is missing; a return in finally drops the exception in flight
Finally ==
    /\ pc = "finally"
    /\ IF \/ args.tag \notin DOMAIN verify_result
          \/ "error" \notin DOMAIN verify_result[args.tag]
       THEN Raise("KeyError")
       ELSE IF verify_result[args.tag]["error"] # <<>>
       THEN /\ exc' = "none"
            /\ outcome' = "returned"
            /\ pc' = "done"
       ELSE IF exc # "none"
       THEN Raise(exc)
       ELSE /\ pc' = "L110"
            /\ UNCHANGED <<exc, outcome>>
    /\ UNCHANGED <<args, verify_result, target_image, exit_status, assigned, api_log,
                   pathVars, yamlVars>>

\* line 110
Line110 ==
    /\ pc = "L110"
    /\ outcome' = "returned"
    /\ pc' = "done"
    /\ UNCHANGED <<args, verify_result, target_image, exc, exit_status, assigned,
                   api_log, pathVars, yamlVars>>

\* ------------------------------------------------------------------------
\* specifications

\* Verifier.run against a docker daemon
Init == PathIdle /\ YamlIdle /\ RunIdle

Next ==
    \/ Call
    \/ Line52
    \/ Line53
    \/ Line56
    \/ Line58
    \/ Line62
    \/ Line69
    \/ Line82
    \/ Line85
    \/ Line86
    \/ Line88
    \/ Except
    \/ Finally
    \/ Line110

Spec == Init /\ [][Next]_vars

\* Verifier.generate_yaml on an input directory
InitYaml == PathIdle /\ YamlInit /\ RunIdle

NextYaml == GenerateYaml

SpecYaml == InitYaml /\ [][NextYaml]_vars

\* Verifier.get_host_path and Verifier.verify_docker_path
InitPath == PathInit /\ YamlIdle /\ RunIdle

NextPath == GetHostPath \/ VerifyDockerPath

SpecPath == InitPath /\ [][NextPath]_vars

\* ------------------------------------------------------------------------
\* properties

Elems(s) == {s[i] : i \in DOMAIN s}

\* the message msg contains the pieces of part, in a row
Names(msg, part) ==
    \E i \in 1..Len(msg) :
        /\ i + Len(part) - 1 <= Len(msg)
        /\ SubSeq(msg, i, i + Len(part) - 1) = part

\* result[tag].error as the caller of run reads it ('' when there is none)
TagError ==
    IF args.tag \in DOMAIN verify_result /\ "error" \in DOMAIN verify_result[args.tag]
    THEN verify_result[args.tag]["error"]
    ELSE <<>>

\* the docker SDK calls of the run call that raised, the first lookup aside
FailedAfterLookup == {i \in 2..Len(api_log) : api_log[i].result # "ok"}

\* the existence check of the run call failed
ExistenceFailed == Len(api_log) >= 1 /\ api_log[1].result # "ok"

\* the caller's tag is none of the keys run itself uses
OwnTag == args.tag \notin {"image_exist", "workspace", "cmd"}

\* the metadata of the image were fetched at line 56
MetadataFetched == Len(api_log) >= 2 /\ api_log[2].result = "ok"

RunFlags == {"run_training", "run_mining", "run_infer"}

\* C1: a generate_yaml call that completes leaves an env.yaml in which
\* exactly one of run_training, run_mining, run_infer is true, whatever the
\* task, the environment template and the user override are.
C1_ExactlyOneRunFlag ==
    gen.status = "ok" =>
        Cardinality({k \in RunFlags : in_dir["env.yaml"][k] = TRUE}) = 1

\* C2: get_host_path maps the container path /out/p to out_dir/p: the same
\* relative path under the host output directory.
C2_HostPathUnderOut ==
    (/\ path_pc = "get_host_path"
     /\ Len(docker_file_path) >= 2
     /\ docker_file_path[1] = "out"
     /\ Elems(docker_file_path) \cap {".", ".."} = {})
        => host_file_path = ymir_out_dir \o Tail(docker_file_path)

\* C3: once the existence check has passed, a failure of the docker SDK
\* never leaves run as an exception: run returns, and result[tag].error is
\* not empty (stated for a tag of the caller's own).
C3_RuntimeFailureRecorded ==
    (pc = "done" /\ OwnTag /\ FailedAfterLookup # {})
        => outcome = "returned" /\ TagError # <<>>

\* C4: when the existence check fails, run returns a result whose only key
\* is image_exist, whose error is not empty and, for an image that was not
\* found, contains the image name; the docker SDK is not called again.
C4_ExistenceShortCircuit ==
    ExistenceFailed =>
        /\ Len(api_log) = 1
        /\ DOMAIN verify_result = {"image_exist"}
        /\ verify_result["image_exist"]["error"] # <<>>
        /\ api_log[1].result = "ImageNotFound"
               => args.docker_image_name \in Elems(verify_result["image_exist"]["error"])
        /\ pc \in {"L53", "done"}
        /\ pc = "done" => outcome = "returned"

C4_Witness ==
    /\ pc = "done"
    /\ outcome = "returned"
    /\ api_log = <<[call |-> "images.get", result |-> "ImageNotFound"]>>
    /\ args.docker_image_name = "ymir-executor:gone"
    /\ DOMAIN verify_result = {"image_exist"}

\* C5: within one run call no key of the result is assigned twice, whatever
\* the tag and the detach mode are.
C5_KeysAssignedOnce ==
    \A i, j \in DOMAIN assigned : i # j => assigned[i] # assigned[j]

\* C6: a failure of the container run is reported under the tag with the
\* message of its own class: 'container error', 'API error' or 'docker image
\* not found' (stated for a tag of the caller's own).
C6_FailureClassesDistinct ==
    \A i \in DOMAIN api_log :
        (/\ pc = "done"
         /\ OwnTag
         /\ api_log[i].call = "containers.run"
         /\ api_log[i].result # "ok")
            => /\ TagError # <<>>
               /\ Head(TagError) =
                      CASE api_log[i].result = "ContainerError" -> "container error"
                        [] api_log[i].result = "APIError" -> "API error"
                        [] api_log[i].result = "ImageNotFound" -> "docker image not found"

\* the index files the task needs
ClaimedIndexFiles(task) ==
    IF task = "training" THEN {"train-index.tsv", "val-index.tsv"}
    ELSE {"candidate-index.tsv"}

\* C7: generate_yaml raises when an index file of the task is absent, and
\* the error names the path of an absent one; it raises for a task that is
\* not training, mining or infer; it completes only when every index file of
\* the task exists.
C7_IndexFilesRequired ==
    LET absent == {f \in ClaimedIndexFiles(gen.task) : f \notin DOMAIN in_dir}
    IN  /\ (gen.task \in {"training", "mining", "infer"} /\ absent # {})
               => /\ gen.status = "raised"
                  /\ \E f \in absent : Names(gen.exc, Append(ymir_in_dir, f))
        /\ gen.task \notin {"none", "training", "mining", "infer"}
               => gen.status = "raised"
        /\ gen.status = "ok"
               => gen.task \in {"training", "mining", "infer"} /\ absent = {}

C7_Witness ==
    /\ gen.task = "training"
    /\ gen.status = "raised"
    /\ "train-index.tsv" \in DOMAIN in_dir
    /\ "val-index.tsv" \notin DOMAIN in_dir
    /\ gen.exc = <<"host", "in", "val-index.tsv", "not exist">>

\* C8: in both detach modes, a container that exited with a non-zero status
\* makes run return a result[tag].error that is not empty (stated for a tag
\* of the caller's own).
C8_NonZeroExitReported ==
    (pc = "done" /\ OwnTag /\ exit_status # 0)
        => outcome = "returned" /\ TagError # <<>>

\* C9: once the metadata of the image are fetched, whatever its working
\* directory and Cmd are, run records at most the warnings workspace and cmd,
\* attempts the container run and returns a result that holds the tag
\* (stated for a tag of the caller's own).
C9_MetadataNeverBlocks ==
    (pc = "done" /\ OwnTag /\ MetadataFetched)
        => /\ \E i \in DOMAIN api_log : api_log[i].call = "containers.run"
           /\ outcome = "returned"
           /\ args.tag \in DOMAIN verify_result
           /\ DOMAIN verify_result \subseteq {"image_exist", "workspace", "cmd", args.tag}

\* the file of the input directory, absent or with its document
FileOf(fs, name) ==
    IF name \in DOMAIN fs THEN <<fs[name]>> ELSE <<>>

\* C10: only a call that completes writes env.yaml; a call for an unknown
\* task writes neither file; every call for a known task writes config.yaml,
\* so that one that raises on an absent index file leaves a new config.yaml
\* and the env.yaml it found.
C10_ConfigBeforeChecks ==
    [][LET call == gen'
       IN  /\ ("env.yaml" \in call.wrote \/ FileOf(in_dir', "env.yaml") # FileOf(in_dir, "env.yaml"))
                  => call.status = "ok"
           /\ call.task \notin {"training", "mining", "infer"}
                  => call.status = "raised" /\ call.wrote = {} /\ in_dir' = in_dir
           /\ call.task \in {"training", "mining", "infer"}
                  => /\ "config.yaml" \in call.wrote
                     /\ "config.yaml" \in DOMAIN in_dir'
                     /\ in_dir'["config.yaml"]["gpu_count"] = Len(gpu_id)
                     /\ \A k \in DOMAIN call.template_config \ DOMAIN user_train_config :
                            in_dir'["config.yaml"][k] = call.template_config[k]
           /\ (call.task \in {"training", "mining", "infer"} /\ call.status = "raised")
                  => /\ call.wrote = {"config.yaml"}
                     /\ FileOf(in_dir', "env.yaml") = FileOf(in_dir, "env.yaml")
      ]_vars

C10_Witness ==
    /\ gen.task = "training"
    /\ gen.template_config = [a |-> 1, b |-> 2]
    /\ gen.status = "raised"
    /\ gen.wrote = {"config.yaml"}
    /\ "env.yaml" \in DOMAIN in_dir
    /\ in_dir["env.yaml"]["run_infer"] = TRUE
    /\ in_dir["config.yaml"]["a"] = 1
    /\ "pretrained_model_params" \in DOMAIN in_dir["config.yaml"]

====
